---------------------------- MODULE Spec2Model ----------------------------
(***************************************************************************)
(* FSK text <-> audio codec of Lutheran Radio/Tools:                       *)
(*   TextToAudioEncoder.py  text_to_binary, generate_encoded_sound         *)
(*   AudioToTextDecoder.py  decode_audio_to_binary, binary_to_text         *)
(*                                                                         *)
(* Representation.  Strings of '0'/'1' are sequences over {0,1}; text is a *)
(* sequence of code points.  The module-level parameters of the two        *)
(* scripts are the record `params`; bit_duration is counted in units of    *)
(* 1/DurationUnit second and sample values in units of 0.01, so that    *)
(* every quantity is an integer.  All parameter sets below use             *)
(* sample rates and window lengths that are powers of two: for those the   *)
(* floating-point products and quotients of the scripts (bit_duration *    *)
(* sample_rate, k / (n * d)) are exact and the integer arithmetic here is  *)
(* the arithmetic of the code.  sin/cos are taken from a table of period   *)
(* TablePeriod scaled by SinScale, and np.abs(fft(.)) is compared through  *)
(* its square.                                                             *)
(***************************************************************************)
EXTENDS Integers, Sequences, FiniteSets, TLC

VARIABLES
    params,            \* module parameters shared by encoder and decoder
    pc,                \* position in the scripts
    text,              \* encoder: text_to_encode
    binary,            \* encoder: the bit string given to generate_encoded_sound
    enc_spb,           \* encoder: local samples_per_bit (line 20)
    total_samples,     \* encoder: total_samples
    samples,           \* encoder: the np.float32 buffer being filled
    current_sample,    \* encoder: running sample index
    bit_index,         \* encoder: number of iterations of `for bit in binary` begun
    i,                 \* encoder: inner loop counter
    frequency,         \* encoder: tone selected for the current bit
    written,           \* history: buffer positions in the order they were assigned
    wav,               \* the samples handed to decode_audio_to_binary
    dec_spb,           \* decoder: module-level samples_per_bit (line 10)
    num_bits,          \* decoder: num_bits
    win,               \* decoder: loop variable i of decode_audio_to_binary
    dominant_freq,     \* decoder: <<numerator, denominator>> of dominant_freq
    dec_binary,        \* decoder: the bit string being built
    dec_text,          \* decoder: result of binary_to_text
    alt_wav,           \* second buffer decoded side by side (two-run comparison)
    alt_binary         \* bits decoded from alt_wav

vars == <<params, pc, text, binary, enc_spb, total_samples, samples,
          current_sample, bit_index, i, frequency, written, wav, dec_spb,
          num_bits, win, dominant_freq, dec_binary, dec_text, alt_wav,
          alt_binary>>

-----------------------------------------------------------------------------
(* Scales of the integer representation *)

\* bit_duration is held as a number of 1/DurationUnit seconds
DurationUnit == 4

\* sin and cos are held as round(SinScale * value)
SinScale == 100

\* the table covers one turn in TablePeriod steps
TablePeriod == 16

SinTable ==
    <<0, 38, 71, 92, 100, 92, 71, 38, 0, -38, -71, -92, -100, -92, -71, -38>>

Abs(x) == IF x < 0 THEN -x ELSE x

Min(a, b) == IF a < b THEN a ELSE b

\* sin(2 pi num / den) * SinScale, for den dividing TablePeriod
Sin(num, den) == SinTable[((num % den) * (TablePeriod \div den)) + 1]

\* cos(2 pi num / den) * SinScale
Cos(num, den) == SinTable[(((num % den) * (TablePeriod \div den) + (TablePeriod \div 4)) % TablePeriod) + 1]

\* Python int(a / b) for b > 0: truncation toward zero
Trunc(a, b) == IF a >= 0 THEN a \div b ELSE -((-a) \div b)

\* Python round(a / b) for b > 0: to nearest, halves to even
Round(a, b) ==
    LET q == a \div b
        r == a % b
    IN  IF 2 * r < b THEN q
        ELSE IF 2 * r > b THEN q + 1
        ELSE IF q % 2 = 0 THEN q ELSE q + 1

-----------------------------------------------------------------------------
(* TextToAudioEncoder.py *)

RECURSIVE Bin(_)
\* the binary digits of v >= 0, most significant first, no leading zeros
Bin(v) == IF v < 2 THEN <<v>> ELSE Append(Bin(v \div 2), v % 2)

\* format(v, 'b'): the zero padding forgotten
FormatUnpadded(v) == Bin(v)

\* format(v, '08b'): zero-padded to a width of at least 8
Format08b(v) ==
    LET b == Bin(v)
    IN  IF Len(b) >= 8 THEN b ELSE [k \in 1..(8 - Len(b)) |-> 0] \o b

RECURSIVE text_to_binary(_)
text_to_binary(t) ==
    IF t = <<>> THEN <<>>
    ELSE Format08b(Head(t)) \o text_to_binary(Tail(t))

\* round(bit_duration * sample_rate) in place of int(...)
EncSamplesPerBitRounded(p) == Round(p.bit_duration * p.sample_rate, DurationUnit)

\* int(bit_duration * sample_rate) as the encoder computes it
EncSamplesPerBit(p) == Trunc(p.bit_duration * p.sample_rate, DurationUnit)

\* a buffer with room for one bit more than the string holds
TotalSamplesExtraBit(b, spb) == (Len(b) + 1) * spb

\* total_samples = len(binary) * samples_per_bit
TotalSamples(b, spb) == Len(b) * spb

\* frequency = frequency_1 if bit == '1' else frequency_0
SelectFrequency(p, bit) == IF bit = 1 THEN p.frequency_1 ELSE p.frequency_0

\* the values random.uniform(noise_range[0], noise_range[1]) is drawn from:
\* the two ends of the range
NoiseDraws(p) == {p.noise_range[1], p.noise_range[2]}

\* np.sin(2 * np.pi * frequency * t) * amplitude + noise with t = n / sample_rate,
\* rounded to the sample grid as the np.float32 store rounds
SampleValue(p, f, n, noise) ==
    LET s == Sin(f * n, p.sample_rate) * p.amplitude
    IN  ((2 * s + SinScale) \div (2 * SinScale)) + noise


-----------------------------------------------------------------------------
(* AudioToTextDecoder.py *)

\* int(bit_duration * sample_rate) as the decoder computes it at module level
DecSamplesPerBit(p) == Trunc(p.bit_duration * p.sample_rate, DurationUnit)

\* the quotient rounded up: a trailing partial window counted as a bit
NumBitsCeil(len, spb) ==
    IF spb > 0 THEN (len + spb - 1) \div spb ELSE -(len \div (-spb))

\* len(samples) // samples_per_bit for samples_per_bit # 0: Python's floor division
NumBits(len, spb) ==
    IF spb > 0 THEN len \div spb ELSE -((len + (-spb) - 1) \div (-spb))

\* samples[0 : n] whatever the window: the offset w * n forgotten
SegmentFromStart(s, w, n) == SubSeq(s, 1, Min(n, Len(s)))

\* samples[w * n : (w + 1) * n], with Python's clipping of a slice at the end
Segment(s, w, n) == SubSeq(s, w * n + 1, Min((w + 1) * n, Len(s)))

RECURSIVE DftRe(_, _, _)
\* real part of bin k of fft(seg), summed over the first m samples
DftRe(seg, k, m) ==
    IF m = 0 THEN 0
    ELSE DftRe(seg, k, m - 1) + seg[m] * Cos(k * (m - 1), Len(seg))

RECURSIVE DftIm(_, _, _)
\* imaginary part of bin k of fft(seg), summed over the first m samples
DftIm(seg, k, m) ==
    IF m = 0 THEN 0
    ELSE DftIm(seg, k, m - 1) - seg[m] * Sin(k * (m - 1), Len(seg))

\* np.abs(fft(seg))[k], squared
MagSq(seg, k) ==
    LET re == DftRe(seg, k, Len(seg))
        im == DftIm(seg, k, Len(seg))
    IN  re * re + im * im

\* np.argmax: the first bin of maximal magnitude
ArgMax(seg) ==
    LET n == Len(seg)
        mag == [k \in 0..(n - 1) |-> MagSq(seg, k)]
    IN  CHOOSE k \in 0..(n - 1) :
            /\ \A j \in 0..(n - 1) : mag[j] <= mag[k]
            /\ \A j \in 0..(k - 1) : mag[j] < mag[k]

\* np.fft.fftfreq(n, 1 / sample_rate)[k], in units of sample_rate / n
FftFreq(k, n) == IF k < ((n - 1) \div 2) + 1 THEN k ELSE k - n

\* the index of the strongest bin taken for its frequency in Hz
DominantFreqAsBinIndex(seg, sample_rate) ==
    <<Abs(FftFreq(ArgMax(seg), Len(seg))), 1>>

\* abs(freqs[np.argmax(fft_vals)]) as the fraction <<numerator, denominator>>
DominantFreq(seg, sample_rate) ==
    <<Abs(FftFreq(ArgMax(seg), Len(seg))) * sample_rate, Len(seg)>>

\* the comparison with <= in place of <
CloserOrEqualToOne(p, dom) ==
    Abs(dom[1] - p.frequency_1 * dom[2]) <= Abs(dom[1] - p.frequency_0 * dom[2])

\* abs(dominant_freq - frequency_1) < abs(dominant_freq - frequency_0)
CloserToOne(p, dom) ==
    Abs(dom[1] - p.frequency_1 * dom[2]) < Abs(dom[1] - p.frequency_0 * dom[2])

\* the character appended to binary for one window
ClassifyBit(p, dom) == IF CloserToOne(p, dom) THEN 1 ELSE 0

\* the bit decoded from window w of buffer s
WindowBit(p, s, w, n) == ClassifyBit(p, DominantFreq(Segment(s, w, n), p.sample_rate))

RECURSIVE IntBase2(_)
\* int(byte, 2)
IntBase2(b) == IF b = <<>> THEN 0 ELSE 2 * IntBase2(SubSeq(b, 1, Len(b) - 1)) + b[Len(b)]

RECURSIVE binary_to_text_keep_short(_)
\* the test len(byte) == 8 forgotten: a short last group is converted too
binary_to_text_keep_short(b) ==
    IF b = <<>> THEN <<>>
    ELSE LET byte == SubSeq(b, 1, Min(8, Len(b)))
             rest == SubSeq(b, Len(byte) + 1, Len(b))
         IN  <<IntBase2(byte)>> \o binary_to_text_keep_short(rest)

RECURSIVE binary_to_text(_)
\* for i in range(0, len(binary), 8): byte = binary[i:i+8]; keep it if len(byte) == 8
binary_to_text(b) ==
    IF b = <<>> THEN <<>>
    ELSE LET byte == SubSeq(b, 1, Min(8, Len(b)))
             rest == SubSeq(b, Len(byte) + 1, Len(b))
         IN  IF Len(byte) = 8
             THEN <<IntBase2(byte)>> \o binary_to_text(rest)
             ELSE binary_to_text(rest)

-----------------------------------------------------------------------------
(* Steps of the encoder script *)

\* create_text_encoded_audio: binary = text_to_binary(text)
TextToBinary ==
    /\ pc = "encode"
    /\ binary' = text_to_binary(text)
    /\ pc' = "gen_call"
    /\ UNCHANGED <<params, text, enc_spb, total_samples, samples, current_sample,
                   bit_index, i, frequency, written, wav, dec_spb, num_bits, win,
                   dominant_freq, dec_binary, dec_text, alt_wav, alt_binary>>

\* generate_encoded_sound, up to the loop: np.zeros raises ValueError for a
\* negative length
GenStart ==
    /\ pc = "gen_call"
    /\ LET spb == EncSamplesPerBit(params)
           total == TotalSamples(binary, spb)
       IN  /\ enc_spb' = spb
           /\ total_samples' = total
           /\ IF total < 0
              THEN /\ pc' = "ValueError"
                   /\ UNCHANGED samples
              ELSE /\ pc' = "gen"
                   /\ samples' = [k \in 1..total |-> 0]
    /\ current_sample' = 0
    /\ bit_index' = 0
    /\ i' = 0
    /\ UNCHANGED <<params, text, binary, frequency, written, wav, dec_spb,
                   num_bits, win, dominant_freq, dec_binary, dec_text, alt_wav,
                   alt_binary>>

\* `for bit in binary:` takes the next bit and selects its tone
GenNextBit ==
    /\ pc = "gen"
    /\ bit_index = 0 \/ i >= enc_spb
    /\ bit_index < Len(binary)
    /\ frequency' = SelectFrequency(params, binary[bit_index + 1])
    /\ bit_index' = bit_index + 1
    /\ i' = 0
    /\ UNCHANGED <<params, pc, text, binary, enc_spb, total_samples, samples,
                   current_sample, written, wav, dec_spb, num_bits, win,
                   dominant_freq, dec_binary, dec_text, alt_wav, alt_binary>>

\* the loop body with the time taken from the per-bit counter i: the sample
\* index restarting at every bit
GenSampleIndexReset ==
    /\ pc = "gen"
    /\ bit_index >= 1
    /\ i < enc_spb
    /\ \E noise \in NoiseDraws(params) :
         samples' = [samples EXCEPT ![current_sample + 1] =
                        SampleValue(params, frequency, i, noise)]
    /\ written' = Append(written, current_sample)
    /\ current_sample' = current_sample + 1
    /\ i' = i + 1
    /\ UNCHANGED <<params, pc, text, binary, enc_spb, total_samples, bit_index,
                   frequency, wav, dec_spb, num_bits, win, dominant_freq,
                   dec_binary, dec_text, alt_wav, alt_binary>>

\* one iteration of `for i in range(samples_per_bit):`
GenSample ==
    /\ pc = "gen"
    /\ bit_index >= 1
    /\ i < enc_spb
    /\ \E noise \in NoiseDraws(params) :
         samples' = [samples EXCEPT ![current_sample + 1] =
                        SampleValue(params, frequency, current_sample, noise)]
    /\ written' = Append(written, current_sample)
    /\ current_sample' = current_sample + 1
    /\ i' = i + 1
    /\ UNCHANGED <<params, pc, text, binary, enc_spb, total_samples, bit_index,
                   frequency, wav, dec_spb, num_bits, win, dominant_freq,
                   dec_binary, dec_text, alt_wav, alt_binary>>

\* return samples
GenReturn ==
    /\ pc = "gen"
    /\ bit_index = 0 \/ i >= enc_spb
    /\ bit_index = Len(binary)
    /\ pc' = "gen_done"
    /\ UNCHANGED <<params, text, binary, enc_spb, total_samples, samples,
                   current_sample, bit_index, i, frequency, written, wav,
                   dec_spb, num_bits, win, dominant_freq, dec_binary, dec_text,
                   alt_wav, alt_binary>>

\* wavfile.write(filename, sample_rate, samples)
WriteWav ==
    /\ pc = "gen_done"
    /\ wav' = samples
    /\ pc' = "dec_load"
    /\ UNCHANGED <<params, text, binary, enc_spb, total_samples, samples,
                   current_sample, bit_index, i, frequency, written, dec_spb,
                   num_bits, win, dominant_freq, dec_binary, dec_text, alt_wav,
                   alt_binary>>

-----------------------------------------------------------------------------
(* Steps of the decoder script *)

\* module level: samples_per_bit = int(bit_duration * sample_rate);
\* decode_audio_file: rate, samples = wavfile.read(filename)
DecLoad ==
    /\ pc = "dec_load"
    /\ dec_spb' = DecSamplesPerBit(params)
    /\ pc' = "dec_call"
    /\ UNCHANGED <<params, text, binary, enc_spb, total_samples, samples,
                   current_sample, bit_index, i, frequency, written, wav,
                   num_bits, win, dominant_freq, dec_binary, dec_text, alt_wav,
                   alt_binary>>

\* decode_audio_to_binary, up to the loop: `//` by zero raises ZeroDivisionError
DecStart ==
    /\ pc = "dec_call"
    /\ IF dec_spb = 0
       THEN /\ pc' = "ZeroDivisionError"
            /\ UNCHANGED num_bits
       ELSE /\ pc' = "dec"
            /\ num_bits' = NumBits(Len(wav), dec_spb)
    /\ dec_binary' = <<>>
    /\ win' = 0
    /\ UNCHANGED <<params, text, binary, enc_spb, total_samples, samples,
                   current_sample, bit_index, i, frequency, written, wav,
                   dec_spb, dominant_freq, dec_text, alt_wav, alt_binary>>

\* one iteration of `for i in range(num_bits):`
DecWindow ==
    /\ pc = "dec"
    /\ win < num_bits
    /\ LET dom == DominantFreq(Segment(wav, win, dec_spb), params.sample_rate)
       IN  /\ dominant_freq' = dom
           /\ dec_binary' = Append(dec_binary, ClassifyBit(params, dom))
    /\ win' = win + 1
    /\ UNCHANGED <<params, pc, text, binary, enc_spb, total_samples, samples,
                   current_sample, bit_index, i, frequency, written, wav,
                   dec_spb, num_bits, dec_text, alt_wav, alt_binary>>

\* return binary
DecReturn ==
    /\ pc = "dec"
    /\ win >= num_bits
    /\ pc' = "dec_done"
    /\ UNCHANGED <<params, text, binary, enc_spb, total_samples, samples,
                   current_sample, bit_index, i, frequency, written, wav,
                   dec_spb, num_bits, win, dominant_freq, dec_binary, dec_text,
                   alt_wav, alt_binary>>

\* text = binary_to_text(binary)
BinaryToText ==
    /\ pc = "dec_done"
    /\ dec_text' = binary_to_text(dec_binary)
    /\ pc' = "done"
    /\ UNCHANGED <<params, text, binary, enc_spb, total_samples, samples,
                   current_sample, bit_index, i, frequency, written, wav,
                   dec_spb, num_bits, win, dominant_freq, dec_binary, alt_wav,
                   alt_binary>>

-----------------------------------------------------------------------------
(* Bounds and input sets *)

\* longest text given to the encoder
MaxTextLen == 2

\* code points the text is drawn from: bytes, and one character above 255
TextChars == {0, 65, 255, 300}

\* all sequences over S of length at most n
SeqsUpTo(S, n) == UNION {[1..k -> S] : k \in 0..n}

\* the window lengths the sine table covers
TableWindows == {1, 2, 4, 8, 16}

\* the scripts before they run: the inputs in place, every other variable at
\* its initial value
Idle(p, start, t, b, w, db, aw) ==
    /\ params = p
    /\ pc = start
    /\ text = t
    /\ binary = b
    /\ enc_spb = 0
    /\ total_samples = 0
    /\ samples = <<>>
    /\ current_sample = 0
    /\ bit_index = 0
    /\ i = 0
    /\ frequency = 0
    /\ written = <<>>
    /\ wav = w
    /\ dec_spb = 0
    /\ num_bits = 0
    /\ win = 0
    /\ dominant_freq = <<0, 1>>
    /\ dec_binary = db
    /\ dec_text = <<>>
    /\ alt_wav = aw
    /\ alt_binary = <<>>

\* twice f is no multiple of the sample rate: the tone's samples are not all
\* rounding residue of sin at multiples of pi
ToneSampled(p, f) == (2 * f) % p.sample_rate # 0

\* noise-free parameter sets of the round trip: tones below and above the
\* Nyquist frequency, on and off the bin centres
RoundTripParams ==
    {p \in [sample_rate : {8, 16}, bit_duration : {2, 4},
            frequency_0 : {2, 3}, frequency_1 : {1, 3, 6, 9},
            amplitude : {10}, noise_range : {<<0, 0>>}] :
        /\ p.frequency_0 # p.frequency_1
        /\ EncSamplesPerBit(p) \in {8, 16}
        /\ ToneSampled(p, p.frequency_0)
        /\ ToneSampled(p, p.frequency_1)}

(* Encoder script followed by decoder script on the file it wrote *)
Init ==
    \E p \in RoundTripParams, t \in SeqsUpTo(TextChars, MaxTextLen) :
        Idle(p, "encode", t, <<>>, <<>>, <<>>, <<>>)

Next ==
    \/ TextToBinary
    \/ GenStart
    \/ GenNextBit
    \/ GenSample
    \/ GenReturn
    \/ WriteWav
    \/ DecLoad
    \/ DecStart
    \/ DecWindow
    \/ DecReturn
    \/ BinaryToText

Spec == Init /\ [][Next]_vars

-----------------------------------------------------------------------------
(* generate_encoded_sound on an arbitrary bit string, with noise *)

\* longest bit string given to generate_encoded_sound directly
MaxBits == 3

EncoderParams ==
    [sample_rate : {4, 8}, bit_duration : {1},
     frequency_0 : {1}, frequency_1 : {3},
     amplitude : {10}, noise_range : {<<0, 0>>, <<-5, 5>>}]

InitEnc ==
    \E p \in EncoderParams, b \in SeqsUpTo({0, 1}, MaxBits) :
        Idle(p, "gen_call", <<>>, b, <<>>, <<>>, <<>>)

NextEnc ==
    \/ GenStart
    \/ GenNextBit
    \/ GenSample
    \/ GenReturn

SpecEnc == InitEnc /\ [][NextEnc]_vars

-----------------------------------------------------------------------------
(* decode_audio_to_binary on an arbitrary sample buffer *)

\* longest sample buffer given to decode_audio_to_binary directly
MaxSamples == 5

\* the values the samples of such a buffer take
SampleValues == {-10, 0, 10}

DecoderParams ==
    {p \in [sample_rate : {4, 8}, bit_duration : {2, 4},
            frequency_0 : {1, 3}, frequency_1 : {1, 2, 3},
            amplitude : {10}, noise_range : {<<0, 0>>}] :
        /\ p.frequency_0 # p.frequency_1
        /\ DecSamplesPerBit(p) \in {2, 4}}

InitDec ==
    \E p \in DecoderParams, w \in SeqsUpTo(SampleValues, MaxSamples) :
        Idle(p, "dec_load", <<>>, <<>>, w, <<>>, <<>>)

NextDec ==
    \/ DecLoad
    \/ DecStart
    \/ DecWindow
    \/ DecReturn

SpecDec == InitDec /\ [][NextDec]_vars

-----------------------------------------------------------------------------
(* decode_audio_to_binary run on two buffers side by side *)

\* longest buffer of the pair
MaxPairSamples == 4

PairValues == {-10, 10}

PairParams ==
    [sample_rate : {4}, bit_duration : {2},
     frequency_0 : {1, 3}, frequency_1 : {2},
     amplitude : {10}, noise_range : {<<0, 0>>}]

\* the loop body of decode_audio_to_binary, executed for window `win` in
\* both runs (each run while it has windows left)
PairWindow ==
    /\ pc = "dec"
    /\ win < num_bits \/ win < NumBits(Len(alt_wav), dec_spb)
    /\ IF win < num_bits
       THEN LET dom == DominantFreq(Segment(wav, win, dec_spb), params.sample_rate)
            IN  /\ dominant_freq' = dom
                /\ dec_binary' = Append(dec_binary, ClassifyBit(params, dom))
       ELSE UNCHANGED <<dominant_freq, dec_binary>>
    /\ IF win < NumBits(Len(alt_wav), dec_spb)
       THEN alt_binary' = Append(alt_binary, WindowBit(params, alt_wav, win, dec_spb))
       ELSE UNCHANGED alt_binary
    /\ win' = win + 1
    /\ UNCHANGED <<params, pc, text, binary, enc_spb, total_samples, samples,
                   current_sample, bit_index, i, frequency, written, wav,
                   dec_spb, num_bits, dec_text, alt_wav>>

InitPair ==
    \E p \in PairParams, w \in SeqsUpTo(PairValues, MaxPairSamples),
       aw \in SeqsUpTo(PairValues, MaxPairSamples) :
        Idle(p, "dec_load", <<>>, <<>>, w, <<>>, aw)

NextPair ==
    \/ DecLoad
    \/ DecStart
    \/ PairWindow

SpecPair == InitPair /\ [][NextPair]_vars

-----------------------------------------------------------------------------
(* binary_to_text on an arbitrary bit string *)

\* longest bit string given to binary_to_text directly
MaxDecodedBits == 12

InitB2T ==
    \E p \in PairParams, b \in SeqsUpTo({0, 1}, MaxDecodedBits) :
        Idle(p, "dec_done", <<>>, <<>>, <<>>, b, <<>>)

NextB2T == BinaryToText

SpecB2T == InitB2T /\ [][NextB2T]_vars

-----------------------------------------------------------------------------
(* Both scripts under arbitrary module parameters *)

\* longest bit string encoded under arbitrary parameters
MaxCfgBits == 2

\* parameter sets with nothing ruled out but window lengths the sine table
\* does not cover
AnyParams ==
    {p \in [sample_rate : {0, 1, 2, 4}, bit_duration : {-1, 0, 1, 2, 3, 4, 5, 6},
            frequency_0 : {1}, frequency_1 : {1, 2},
            amplitude : {10}, noise_range : {<<0, 0>>, <<-5, 5>>, <<5, -5>>}] :
        EncSamplesPerBit(p) <= 0 \/ EncSamplesPerBit(p) \in TableWindows}

InitCfg ==
    \E p \in AnyParams, b \in SeqsUpTo({0, 1}, MaxCfgBits) :
        Idle(p, "gen_call", <<>>, b, <<>>, <<>>, <<>>)

NextCfg ==
    \/ GenStart
    \/ GenNextBit
    \/ GenSample
    \/ GenReturn
    \/ WriteWav
    \/ DecLoad
    \/ DecStart
    \/ DecWindow
    \/ DecReturn
    \/ BinaryToText

SpecCfg == InitCfg /\ [][NextCfg]_vars

-----------------------------------------------------------------------------
(* Properties *)

IsByteString(t) == \A k \in 1..Len(t) : t[k] \in 0..255

\* bit j (0 = most significant) of the 8-bit value v
BitOf(v, j) == (v \div (2 ^ (7 - j))) % 2

NoiseFree(p) == p.noise_range = <<0, 0>>

\* the tones are further apart than one bin, sample_rate / samples_per_bit
Separated(p, spb) == Abs(p.frequency_0 - p.frequency_1) * spb > p.sample_rate

\* f is a whole number of cycles per window and lies strictly between 0 and
\* the Nyquist frequency
OnBinBelowNyquist(p, spb, f) ==
    /\ (f * spb) % p.sample_rate = 0
    /\ 0 < f
    /\ 2 * f < p.sample_rate

\* C1 as stated: noise-free round trip of every byte string under every
\* configuration whose tones are more than sample_rate / samples_per_bit apart
C1_RoundTripAnySeparatedTones ==
    (pc = "done" /\ IsByteString(text) /\ NoiseFree(params)
        /\ Separated(params, enc_spb))
    => (dec_binary = binary /\ dec_text = text)

\* C1 amended: the noise-free round trip returns the byte string (and the bits
\* of 0x41 as 01000001) when, in addition, both tones are whole multiples of
\* sample_rate / samples_per_bit strictly between 0 and sample_rate / 2
C1_RoundTripOnBinTones ==
    (pc = "done" /\ IsByteString(text) /\ NoiseFree(params)
        /\ Separated(params, enc_spb)
        /\ OnBinBelowNyquist(params, enc_spb, params.frequency_0)
        /\ OnBinBelowNyquist(params, enc_spb, params.frequency_1))
    => /\ dec_binary = binary
       /\ dec_text = text
       /\ (text = <<65>> => dec_binary = <<0, 1, 0, 0, 0, 0, 0, 1>>)

C1_Witness ==
    /\ pc = "done"
    /\ text = <<65>>
    /\ NoiseFree(params)
    /\ Separated(params, enc_spb)
    /\ OnBinBelowNyquist(params, enc_spb, params.frequency_0)
    /\ OnBinBelowNyquist(params, enc_spb, params.frequency_1)
    /\ dec_binary = <<0, 1, 0, 0, 0, 0, 0, 1>>
    /\ dec_text = <<65>>

\* C2: the buffer generate_encoded_sound allocates and returns holds exactly
\* len(binary) * samples_per_bit samples; for the empty bit string it is
\* empty, and the call raises nothing
C2_BufferLength ==
    /\ pc \in {"gen", "gen_done"} =>
          /\ Len(samples) = Len(binary) * enc_spb
          /\ binary = <<>> => samples = <<>>
    /\ pc # "ValueError"

C2_Witness ==
    /\ pc = "gen_done"
    /\ Len(binary) = 2
    /\ enc_spb = 2
    /\ Len(samples) = 4

\* C6: text_to_binary gives every byte of the text, in order, as its 8 bits
\* most significant first, so the bit string is 8 * len(text) long
C6_EightBitsMsbFirst ==
    (pc # "encode" /\ IsByteString(text)) =>
        /\ Len(binary) = 8 * Len(text)
        /\ \A k \in 1..Len(text) : \A j \in 0..7 :
              binary[8 * (k - 1) + j + 1] = BitOf(text[k], j)

C6_Witness ==
    /\ pc = "gen_call"
    /\ text = <<65, 255>>
    /\ binary = <<0, 1, 0, 0, 0, 0, 0, 1, 1, 1, 1, 1, 1, 1, 1, 1>>

\* C9: while generate_encoded_sound runs, the sample index starts at 0, goes
\* up by one per sample written and is not reset between bits: sample k of
\* bit j is written at n = j * samples_per_bit + k from the tone of bit j,
\* positions are written once each in increasing order, and on return
\* n = len(binary) * samples_per_bit
C9_RunningSampleIndex ==
    pc \in {"gen", "gen_done"} =>
        /\ written = [n \in 1..current_sample |-> n - 1]
        /\ bit_index = 0 => current_sample = 0
        /\ bit_index >= 1 =>
              /\ current_sample = (bit_index - 1) * enc_spb + i
              /\ i <= enc_spb
              /\ frequency = IF binary[bit_index] = 1 THEN params.frequency_1
                                                     ELSE params.frequency_0
              /\ i >= 1 =>
                    \E noise \in NoiseDraws(params) :
                        samples[current_sample] =
                            SampleValue(params, frequency,
                                        (bit_index - 1) * enc_spb + (i - 1), noise)
        /\ \A n \in (current_sample + 1)..Len(samples) : samples[n] = 0
        /\ pc = "gen_done" => current_sample = Len(binary) * enc_spb

C9_Witness ==
    /\ pc = "gen"
    /\ bit_index = 2
    /\ enc_spb = 2
    /\ i = 1
    /\ current_sample = 3
    /\ binary[1] # binary[2]

\* C3: decode_audio_to_binary returns floor(len(samples) / samples_per_bit)
\* bits: samples after the last whole window are ignored, and a buffer
\* shorter than one window (the empty one too) gives no bits and no error
C3_OneBitPerWholeWindow ==
    /\ pc \in {"dec", "dec_done"} =>
          /\ dec_spb * num_bits <= Len(wav)
          /\ Len(wav) < dec_spb * (num_bits + 1)
          /\ Len(dec_binary) = win
          /\ win <= num_bits
    /\ pc = "dec_done" =>
          /\ Len(dec_binary) = Len(wav) \div dec_spb
          /\ Len(wav) < dec_spb => dec_binary = <<>>
    /\ pc # "ZeroDivisionError"

C3_Witness ==
    /\ pc = "dec_done"
    /\ Len(wav) = 5
    /\ dec_spb = 2
    /\ Len(dec_binary) = 2

\* the numerator-over-denominator fraction dom is as far from frequency_0 as
\* from frequency_1
Equidistant(p, dom) ==
    Abs(dom[1] - p.frequency_1 * dom[2]) = Abs(dom[1] - p.frequency_0 * dom[2])

\* C4: the bit decoded from a window is 1 exactly when the window's dominant
\* frequency (the absolute frequency of the first bin of largest magnitude)
\* is strictly closer to frequency_1 than to frequency_0; at equal distance
\* the bit is 0
C4_StrictlyCloserToOne ==
    (pc \in {"dec", "dec_done"} /\ win >= 1) =>
        LET seg == SubSeq(wav, (win - 1) * dec_spb + 1, win * dec_spb)
            n == Len(seg)
            d1 == Abs(dominant_freq[1] - params.frequency_1 * dominant_freq[2])
            d0 == Abs(dominant_freq[1] - params.frequency_0 * dominant_freq[2])
        IN  /\ \E k \in 0..(n - 1) :
                  /\ \A j \in 0..(n - 1) : MagSq(seg, j) <= MagSq(seg, k)
                  /\ dominant_freq = <<(IF 2 * k <= n THEN k ELSE n - k)
                                          * params.sample_rate, n>>
            /\ dec_binary[win] = 1 <=> d1 < d0
            /\ d1 = d0 => dec_binary[win] = 0

C4_Witness ==
    /\ pc = "dec"
    /\ win >= 1
    /\ Equidistant(params, dominant_freq)
    /\ dominant_freq[1] > 0
    /\ dec_binary[win] = 0

\* the value of the 8 bits of b that start at position k, most significant first
ByteAt(b, k) ==
    128 * b[k] + 64 * b[k + 1] + 32 * b[k + 2] + 16 * b[k + 3]
        + 8 * b[k + 4] + 4 * b[k + 5] + 2 * b[k + 6] + b[k + 7]

\* C5: binary_to_text turns each successive group of 8 bits into one
\* character and returns floor(len(binary) / 8) of them: fewer than 8
\* trailing bits are dropped, so 12 bits give the one character of the first
\* 8 and no bits give the empty text
C5_WholeBytesOnly ==
    pc = "done" =>
        /\ Len(dec_text) = Len(dec_binary) \div 8
        /\ \A k \in 1..Len(dec_text) : dec_text[k] = ByteAt(dec_binary, 8 * (k - 1) + 1)
        /\ dec_binary = <<>> => dec_text = <<>>

C5_Witness ==
    /\ pc = "done"
    /\ dec_binary = <<0, 1, 0, 0, 0, 0, 0, 1, 1, 1, 1, 1>>
    /\ dec_text = <<65>>

\* the configurations the specification's ModulationConfig accepts
ValidConfig(p) ==
    /\ p.sample_rate > 0
    /\ p.bit_duration > 0
    /\ Round(p.bit_duration * p.sample_rate, DurationUnit) >= 1
    /\ p.frequency_0 # p.frequency_1
    /\ p.noise_range[1] <= p.noise_range[2]

\* C7: an invalid configuration is refused before anything runs, so the
\* encoder and decoder only ever run under a valid one
C7_InvalidConfigNeverRuns ==
    pc \in {"gen", "gen_done", "dec", "dec_done", "done"} => ValidConfig(params)

\* C8 as stated: under a valid configuration the window length of both
\* scripts is round(bit_duration * sample_rate), at least 1
C8_WindowLengthRounded ==
    (ValidConfig(params) /\ pc \notin {"gen_call", "dec_load"}) =>
        /\ enc_spb = Round(params.bit_duration * params.sample_rate, DurationUnit)
        /\ enc_spb >= 1

\* C8 amended: the window length is bit_duration * sample_rate truncated
\* toward zero, at least 1 exactly when that product is at least 1, and the
\* decoder derives the value the encoder derived
C8_WindowLengthTruncated ==
    LET prod == params.bit_duration * params.sample_rate
    IN  /\ pc # "gen_call" =>
              /\ prod >= 0 => /\ enc_spb * DurationUnit <= prod
                              /\ prod < (enc_spb + 1) * DurationUnit
              /\ prod <= 0 => /\ enc_spb * DurationUnit >= prod
                              /\ prod > (enc_spb - 1) * DurationUnit
              /\ enc_spb >= 1 <=> prod >= DurationUnit
        /\ pc \in {"dec_call", "dec", "dec_done", "done", "ZeroDivisionError"} =>
              dec_spb = enc_spb

C8_Witness ==
    /\ pc = "dec"
    /\ params.bit_duration = 3
    /\ params.sample_rate = 2
    /\ ValidConfig(params)
    /\ enc_spb = 1
    /\ dec_spb = 1
    /\ Round(params.bit_duration * params.sample_rate, DurationUnit) = 2

\* C10: the bit at position w depends on window w alone: where two buffers
\* hold the same samples in window w, the bits decoded at position w are the
\* same, whatever the rest of the buffers holds; bits are appended in window
\* order
C10_BitDependsOnItsWindowOnly ==
    pc = "dec" =>
        /\ Len(dec_binary) = Min(win, Len(wav) \div dec_spb)
        /\ Len(alt_binary) = Min(win, Len(alt_wav) \div dec_spb)
        /\ \A w \in 0..(Min(Len(dec_binary), Len(alt_binary)) - 1) :
              SubSeq(wav, w * dec_spb + 1, (w + 1) * dec_spb)
                  = SubSeq(alt_wav, w * dec_spb + 1, (w + 1) * dec_spb)
              => dec_binary[w + 1] = alt_binary[w + 1]

C10_Witness ==
    /\ pc = "dec"
    /\ Len(dec_binary) = 2
    /\ Len(alt_binary) = 2
    /\ SubSeq(wav, 1, 2) # SubSeq(alt_wav, 1, 2)
    /\ SubSeq(wav, 3, 4) = SubSeq(alt_wav, 3, 4)
    /\ dec_binary[1] # alt_binary[1]
    /\ dec_binary[2] = alt_binary[2]
    /\ dec_binary[2] = 1

=============================================================================
